---- MODULE Spec2Model ----
(***************************************************************************)
(* A model of fed_rf_mk/utils.py: the helpers that poll and approve the    *)
(* last code request of every datasite, that store and load serialised     *)
(* models under a file name derived from the datasite name, and that plot  *)
(* a 2x2 grid of confusion matrices.                                       *)
(*                                                                         *)
(* Strings of the program are sequences of one-character strings, so that  *)
(* str.replace and str.lower are computed character by character.          *)
(* The program is single-threaded: every action is one whole call.         *)
(***************************************************************************)
EXTENDS Integers, Sequences, FiniteSets, TLC

VARIABLES
    datasites,  \* the registry: a sequence (dict order) of [name, code]
    dirs,       \* the directories that exist below the working directory
    files,      \* the regular files: a function from <<folder, filename>> to bytes
    dumped,     \* history: for each path, the bytes of the last dump_model to it
    args,       \* the arguments of the call to a pure function, drawn by Init
    ret         \* the last call: its name, its arguments and its outcome

vars == <<datasites, dirs, files, dumped, args, ret>>

(***************************************************************************)
(* Bounds of the model.                                                    *)
(***************************************************************************)
MaxNameLen == 3     \* longest enumerated datasite name of SpecNames
MaxSites == 3       \* most datasites in a registry
MaxRequests == 3    \* most code requests submitted over a whole registry
MaxCms == 5         \* most confusion matrices handed to the plot

(***************************************************************************)
(* Strings.                                                                *)
(***************************************************************************)
UpperCase == <<"A", "B", "C", "D", "E", "F", "G", "H", "I", "J", "K", "L", "M",
               "N", "O", "P", "Q", "R", "S", "T", "U", "V", "W", "X", "Y", "Z">>
LowerCase == <<"a", "b", "c", "d", "e", "f", "g", "h", "i", "j", "k", "l", "m",
               "n", "o", "p", "q", "r", "s", "t", "u", "v", "w", "x", "y", "z">>

\* str.lower() on one character
LowerChar(c) ==
    IF \E i \in DOMAIN UpperCase : UpperCase[i] = c
    THEN LowerCase[CHOOSE i \in DOMAIN UpperCase : UpperCase[i] = c]
    ELSE c

\* str.lower()
Lower(s) == [i \in DOMAIN s |-> LowerChar(s[i])]

\* str.replace(old, new) for a one-character old and a new of any length
RECURSIVE Replace(_, _, _)
Replace(s, old, new) ==
    IF s = <<>> THEN <<>>
    ELSE (IF Head(s) = old THEN new ELSE <<Head(s)>>) \o Replace(Tail(s), old, new)

ModelSuffix == <<"_", "m", "o", "d", "e", "l", ".", "j", "b", "l">>

\* a mutant of get_model_file: the space is dropped instead of replaced
get_model_file_strip(datasite_name) ==
    Lower(Replace(Replace(datasite_name, ".", <<>>), " ", <<>>)) \o ModelSuffix

\* f"{datasite_name.replace('.', '').replace(' ', '_').lower()}_model.jbl"
get_model_file(datasite_name) ==
    Lower(Replace(Replace(datasite_name, ".", <<>>), " ", <<"_">>)) \o ModelSuffix

(***************************************************************************)
(* SpecNames: get_model_file applied to every name over Alphabet of at     *)
(* most MaxNameLen characters, and to the name of the documented example.  *)
(***************************************************************************)
Alphabet == {"A", "a", "b", " ", ".", "_"}

RECURSIVE StringsUpTo(_)
StringsUpTo(n) ==
    IF n = 0 THEN {<<>>}
    ELSE LET shorter == StringsUpTo(n - 1)
         IN  shorter \cup {Append(s, c) : s \in shorter, c \in Alphabet}

ExampleName == <<"M", "y", " ", "S", "i", "t", "e", ".", "O", "n", "e">>

NameInputs == StringsUpTo(MaxNameLen) \cup {ExampleName}

NoCall == [op |-> "none"]

InitNames ==
    /\ datasites = <<>>
    /\ dirs = {}
    /\ files = <<>>
    /\ dumped = <<>>
    /\ args \in {[datasite_name |-> name] : name \in NameInputs}
    /\ ret = NoCall

GetModelFile ==
    LET name == args.datasite_name
    IN  /\ ret' = [op |-> "get_model_file", datasite_name |-> name,
                   value |-> get_model_file(name)]
        /\ UNCHANGED <<datasites, dirs, files, dumped, args>>

NextNames == GetModelFile

SpecNames == InitNames /\ [][NextNames]_vars

(***************************************************************************)
(* C1.  The documented normalisation, stated without str.replace: the      *)
(* characters of the name that are neither a dot nor a space, lowercased.  *)
(***************************************************************************)
IsKeptByStrip(c) == c \notin {".", " "}
IsNotDot(c) == c # "."

StrippedName(s) == LET kept == SelectSeq(s, IsKeptByStrip)
                   IN  [i \in DOMAIN kept |-> LowerChar(kept[i])]

UnderscoredName(s) ==
    LET kept == SelectSeq(s, IsNotDot)
    IN  [i \in DOMAIN kept |-> IF kept[i] = " " THEN "_" ELSE LowerChar(kept[i])]

\* C1 as stated: for every site name s, get_model_file(s) is lowercase(s) with
\* every space and every dot removed, followed by "_model.jbl"; for
\* "My Site.One" it is "mysiteone_model.jbl".
C1_SpacesAndDotsRemoved ==
    ret.op = "get_model_file" =>
        /\ ret.value = StrippedName(ret.datasite_name) \o ModelSuffix
        /\ ret.datasite_name = ExampleName =>
              ret.value = <<"m", "y", "s", "i", "t", "e", "o", "n", "e">> \o ModelSuffix

\* C1 amended: for every site name s, get_model_file(s) is lowercase(s) with
\* every dot removed and every space replaced by an underscore, followed by
\* "_model.jbl"; for "My Site.One" it is "my_siteone_model.jbl".
C1_DotsRemovedSpacesUnderscored ==
    ret.op = "get_model_file" =>
        /\ ret.value = UnderscoredName(ret.datasite_name) \o ModelSuffix
        /\ ret.datasite_name = ExampleName =>
              ret.value = <<"m", "y", "_", "s", "i", "t", "e", "o", "n", "e",
                            "_", "m", "o", "d", "e", "l", ".", "j", "b", "l">>

C1_Witness ==
    /\ ret.op = "get_model_file"
    /\ ret.datasite_name = ExampleName
    /\ Len(ret.value) = Len(ExampleName) - 1 + Len(ModelSuffix)

(***************************************************************************)
(* The registry of datasites.  A datasite client exposes `code`, the list  *)
(* of the code requests submitted to it, oldest first; a request is        *)
(* modelled by its status.                                                 *)
(***************************************************************************)
Statuses == {"pending", "approved", "rejected"}

\* the name of the i-th datasite of a registry of the request helpers
SiteName(i) == <<"S", "i", "t", "e", " ", UpperCase[i]>>

\* the registries of n datasites with at most `budget` requests in all
RECURSIVE RegistriesOf(_, _)
RegistriesOf(n, budget) ==
    IF n = 0 THEN {<<>>}
    ELSE UNION {
             LET rest == RegistriesOf(n - 1, budget - k)
             IN  {Append(r, [name |-> <<>>, code |-> c]) :
                     r \in rest, c \in [1..k -> Statuses]}
             : k \in 0..budget}

Registries == UNION {RegistriesOf(n, MaxRequests) : n \in 0..MaxSites}

Named(ds) == [i \in DOMAIN ds |-> [name |-> SiteName(i), code |-> ds[i].code]]

\* a mutant of LastIndex: the first request instead of the last
FirstIndex(code) == IF Len(code) = 0 THEN 0 ELSE 1

\* the index that code[-1] reads; 0 when the list is empty (IndexError)
LastIndex(code) == Len(code)

\* a mutant of approve: an already decided request is left as it is
approve_pending_only(status) == IF status = "pending" THEN "approved" ELSE status

\* request.status.approve()
approve(status) == "approved"

\* request.status.approved
approved(status) == status = "approved"

\* request.status.get_status_message()
get_status_message(status) == <<"status", status>>

\* the loop of approve_last_code_requests from the i-th datasite on
RECURSIVE approve_loop(_, _)
approve_loop(ds, i) ==
    IF i > Len(ds) THEN [datasites |-> ds, raised |-> "None"]
    ELSE IF LastIndex(ds[i].code) = 0 THEN [datasites |-> ds, raised |-> "IndexError"]
    ELSE approve_loop(
             [ds EXCEPT ![i].code[LastIndex(ds[i].code)] = approve(@)], i + 1)

\* a mutant of approve_last_code_requests_of: a datasite without requests is
\* passed over
RECURSIVE approve_skip_loop(_, _)
approve_skip_loop(ds, i) ==
    IF i > Len(ds) THEN [datasites |-> ds, raised |-> "None"]
    ELSE IF Len(ds[i].code) = 0 THEN approve_skip_loop(ds, i + 1)
    ELSE approve_skip_loop([ds EXCEPT ![i].code[Len(ds[i].code)] = "approved"], i + 1)

approve_skipping_empty(ds) == approve_skip_loop(ds, 1)

\* a mutant of approve_last_code_requests_of: all or nothing
approve_atomically(ds) ==
    LET r == approve_loop(ds, 1)
    IN  IF r.raised = "None" THEN r ELSE [datasites |-> ds, raised |-> r.raised]

approve_last_code_requests_of(ds) == approve_loop(ds, 1)

\* the list comprehension of requests_accepted from the i-th datasite on
RECURSIVE accepted_loop(_, _, _)
accepted_loop(ds, i, acc) ==
    IF i > Len(ds) THEN [value |-> acc, raised |-> "None"]
    ELSE IF LastIndex(ds[i].code) = 0 THEN [value |-> <<>>, raised |-> "IndexError"]
    ELSE accepted_loop(ds, i + 1,
                       Append(acc, approved(ds[i].code[LastIndex(ds[i].code)])))

requests_accepted_of(ds) == accepted_loop(ds, 1, <<>>)

\* the loop of check_status_last_code_requests: what it printed and displayed
RECURSIVE check_status_loop(_, _, _)
check_status_loop(ds, i, out) ==
    IF i > Len(ds) THEN [out |-> out, raised |-> "None"]
    ELSE LET printed == Append(out, <<"Datasite: ", ds[i].name>>)
         IN  IF LastIndex(ds[i].code) = 0
             THEN [out |-> printed, raised |-> "IndexError"]
             ELSE check_status_loop(ds, i + 1,
                      Append(printed,
                             get_status_message(ds[i].code[LastIndex(ds[i].code)])))

Init ==
    /\ datasites \in {Named(ds) : ds \in Registries}
    /\ dirs = {}
    /\ files = <<>>
    /\ dumped = <<>>
    /\ args = <<>>
    /\ ret = NoCall

CheckStatusLastCodeRequests ==
    LET r == check_status_loop(datasites, 1, <<>>)
    IN  /\ ret' = [op |-> "check_status_last_code_requests", pre |-> datasites,
                   raised |-> r.raised, out |-> r.out]
        /\ UNCHANGED <<datasites, dirs, files, dumped, args>>

ApproveLastCodeRequests ==
    LET r == approve_last_code_requests_of(datasites)
    IN  /\ datasites' = r.datasites
        /\ ret' = [op |-> "approve_last_code_requests", pre |-> datasites,
                   raised |-> r.raised]
        /\ UNCHANGED <<dirs, files, dumped, args>>

RequestsAccepted ==
    LET r == requests_accepted_of(datasites)
    IN  /\ ret' = [op |-> "requests_accepted", pre |-> datasites,
                   raised |-> r.raised, value |-> r.value]
        /\ UNCHANGED <<datasites, dirs, files, dumped, args>>

Next ==
    \/ CheckStatusLastCodeRequests
    \/ ApproveLastCodeRequests
    \/ RequestsAccepted

Spec == Init /\ [][Next]_vars

(***************************************************************************)
(* Claims about the request helpers, checked under Spec.                   *)
(***************************************************************************)
HasRequests(ds) == \A i \in DOMAIN ds : Len(ds[i].code) >= 1
LastStatus(d) == d.code[Len(d.code)]
FirstEmpty(ds) == CHOOSE k \in DOMAIN ds :
                      /\ Len(ds[k].code) = 0
                      /\ \A i \in 1..(k - 1) : Len(ds[i].code) >= 1
RequestCalls == {"check_status_last_code_requests", "approve_last_code_requests",
                 "requests_accepted"}

\* C2: on a registry in which every site has a request, requests_accepted
\* returns exactly one boolean per site, in iteration order, the i-th TRUE
\* exactly when the last request of the i-th site is approved (so no earlier
\* request has any influence), and it changes nothing.
C2_OneBooleanPerSite ==
    (ret.op = "requests_accepted" /\ HasRequests(ret.pre)) =>
        /\ ret.raised = "None"
        /\ datasites = ret.pre
        /\ Len(ret.value) = Len(ret.pre)
        /\ \A i \in DOMAIN ret.pre :
              /\ ret.value[i] \in BOOLEAN
              /\ ret.value[i] <=> (LastStatus(ret.pre[i]) = "approved")

C2_Witness ==
    /\ ret.op = "requests_accepted"
    /\ ret.raised = "None"
    /\ Len(ret.pre) = 2
    /\ ret.pre[1].code = <<"approved", "pending">>
    /\ ret.pre[2].code = <<"approved">>
    /\ ret.value = <<FALSE, TRUE>>

\* C3: after approve_last_code_requests completes on a registry in which
\* every site has a request, the last request of every site is approved
\* whatever it was before, requests_accepted is TRUE for every site, and
\* every other request has the status it had.
C3_LastRequestsApproved ==
    (ret.op = "approve_last_code_requests" /\ HasRequests(ret.pre)) =>
        /\ ret.raised = "None"
        /\ Len(datasites) = Len(ret.pre)
        /\ \A i \in DOMAIN ret.pre :
              /\ datasites[i].name = ret.pre[i].name
              /\ Len(datasites[i].code) = Len(ret.pre[i].code)
              /\ LastStatus(datasites[i]) = "approved"
              /\ \A j \in 1..(Len(ret.pre[i].code) - 1) :
                    datasites[i].code[j] = ret.pre[i].code[j]
        /\ requests_accepted_of(datasites) =
              [value |-> [i \in DOMAIN ret.pre |-> TRUE], raised |-> "None"]

C3_Witness ==
    /\ ret.op = "approve_last_code_requests"
    /\ ret.raised = "None"
    /\ Len(ret.pre) = 2
    /\ ret.pre[1].code = <<"pending", "rejected">>
    /\ ret.pre[2].code = <<"pending">>
    /\ datasites[1].code = <<"pending", "approved">>
    /\ datasites[2].code = <<"approved">>

\* C4: on a registry that holds a site without any request,
\* approve_last_code_requests, check_status_last_code_requests and
\* requests_accepted all end in an IndexError and never complete normally.
C4_EmptySiteRaises ==
    (ret.op \in RequestCalls /\ ~HasRequests(ret.pre)) => ret.raised = "IndexError"

C4_Witness ==
    /\ ret.op = "approve_last_code_requests"
    /\ Len(ret.pre) = 1
    /\ ret.pre[1].code = <<>>
    /\ ret.raised = "IndexError"

\* C9: when the k-th site is the first without a request,
\* approve_last_code_requests ends in the error, the last request of every
\* site before k is approved and stays so, and every site from k on is as it
\* was.
C9_NoRollback ==
    (ret.op = "approve_last_code_requests" /\ ~HasRequests(ret.pre)) =>
        LET k == FirstEmpty(ret.pre)
        IN  /\ ret.raised = "IndexError"
            /\ Len(datasites) = Len(ret.pre)
            /\ \A i \in 1..(k - 1) :
                  /\ LastStatus(datasites[i]) = "approved"
                  /\ Len(datasites[i].code) = Len(ret.pre[i].code)
                  /\ \A j \in 1..(Len(ret.pre[i].code) - 1) :
                        datasites[i].code[j] = ret.pre[i].code[j]
            /\ \A i \in k..Len(ret.pre) : datasites[i] = ret.pre[i]

C9_Witness ==
    /\ ret.op = "approve_last_code_requests"
    /\ ret.raised = "IndexError"
    /\ Len(ret.pre) = 3
    /\ ret.pre[1].code = <<"pending">>
    /\ ret.pre[2].code = <<>>
    /\ ret.pre[3].code = <<"pending">>
    /\ datasites[1].code = <<"approved">>
    /\ datasites[3].code = <<"pending">>

(***************************************************************************)
(* The file system and the serialised models.  A path is a sequence of     *)
(* components below the working directory, which always exists; Path(root) *)
(* / filename is Append(root, filename).                                   *)
(***************************************************************************)
Models == <<"m", "o", "d", "e", "l", "s">>
Out == <<"o", "u", "t">>

\* the roots handed to dump_model and load_models: "./models", the default,
\* and the nested "out/models"
Roots == {<<Models>>, <<Out, Models>>}

Parent(path) == SubSeq(path, 1, Len(path) - 1)
IsDir(ds, path) == path = <<>> \/ path \in ds

Estimators == {"rf1", "rf2"}

\* joblib.dump(model, buffer): the bytes of a serialised estimator
Pickle(e) == <<"PROTO", e, "STOP">>

\* joblib.load(file) on the bytes of the file
joblib_load(bytes) ==
    IF /\ Len(bytes) = Len(Pickle("rf1"))
       /\ bytes[1] = "PROTO"
       /\ bytes[2] \in Estimators
       /\ bytes[Len(bytes)] = "STOP"
    THEN [raised |-> "None", value |-> bytes[2]]
    ELSE [raised |-> "DeserializationError"]

\* a mutant of getbuffer: model_buffer.read(), the bytes after the position
read(model_buffer) ==
    SubSeq(model_buffer.bytes, model_buffer.pos + 1, Len(model_buffer.bytes))

\* BytesIO.getbuffer(): the whole content, whatever the position
getbuffer(model_buffer) == model_buffer.bytes

\* Path.mkdir(exist_ok=True)
mkdir(ds, fs, path) ==
    IF IsDir(ds, path) THEN [raised |-> "None", dirs |-> ds]
    ELSE IF path \in DOMAIN fs THEN [raised |-> "FileExistsError", dirs |-> ds]
    ELSE IF ~IsDir(ds, Parent(path)) THEN [raised |-> "FileNotFoundError", dirs |-> ds]
    ELSE [raised |-> "None", dirs |-> ds \cup {path}]

\* with open(filepath, "wb") as f: f.write(bytes)
open_wb_write(ds, fs, filepath, bytes) ==
    IF IsDir(ds, filepath) THEN [raised |-> "IsADirectoryError", files |-> fs]
    ELSE IF Parent(filepath) \in DOMAIN fs
         THEN [raised |-> "NotADirectoryError", files |-> fs]
    ELSE IF ~IsDir(ds, Parent(filepath))
         THEN [raised |-> "FileNotFoundError", files |-> fs]
    ELSE [raised |-> "None",
          files |-> [p \in DOMAIN fs \cup {filepath} |->
                        IF p = filepath THEN bytes ELSE fs[p]]]

\* a mutant of dump_model_of: an existing file is kept (mode "xb")
dump_model_exclusive(ds, fs, datasite_name, model_buffer, root) ==
    LET made == mkdir(ds, fs, root)
        filepath == Append(root, get_model_file(datasite_name))
    IN  IF made.raised # "None"
        THEN [raised |-> made.raised, dirs |-> ds, files |-> fs]
        ELSE IF filepath \in DOMAIN fs
        THEN [raised |-> "None", dirs |-> made.dirs, files |-> fs,
              value |-> <<"Model saved in ", filepath>>]
        ELSE LET written == open_wb_write(made.dirs, fs, filepath,
                                          getbuffer(model_buffer))
             IN  [raised |-> "None", dirs |-> made.dirs, files |-> written.files,
                  value |-> <<"Model saved in ", filepath>>]

\* dump_model on the directories ds and the files fs
dump_model_of(ds, fs, datasite_name, model_buffer, root) ==
    LET made == mkdir(ds, fs, root)
        filepath == Append(root, get_model_file(datasite_name))
    IN  IF made.raised # "None"
        THEN [raised |-> made.raised, dirs |-> ds, files |-> fs]
        ELSE LET written == open_wb_write(made.dirs, fs, filepath,
                                          getbuffer(model_buffer))
             IN  IF written.raised # "None"
                 THEN [raised |-> written.raised, dirs |-> made.dirs, files |-> fs]
                 ELSE [raised |-> "None", dirs |-> made.dirs,
                       files |-> written.files,
                       value |-> <<"Model saved in ", filepath>>]

\* load_model: open(model_filepath, "rb"), then joblib.load
load_model(ds, fs, model_filepath) ==
    IF model_filepath \in DOMAIN fs THEN joblib_load(fs[model_filepath])
    ELSE IF IsDir(ds, model_filepath) THEN [raised |-> "IsADirectoryError"]
    ELSE IF Parent(model_filepath) \in DOMAIN fs THEN [raised |-> "NotADirectoryError"]
    ELSE [raised |-> "FileNotFoundError"]

\* models[name] = value
DictSet(models, name, value) ==
    [k \in DOMAIN models \cup {name} |-> IF k = name THEN value ELSE models[k]]

\* the loop of load_models from the i-th datasite on
RECURSIVE load_models_loop(_, _, _, _, _, _, _)
load_models_loop(ds, fs, sites, root, i, models, attempted) ==
    IF i > Len(sites)
    THEN [raised |-> "None", value |-> models, attempted |-> attempted]
    ELSE LET filepath == Append(root, get_model_file(sites[i].name))
             loaded == load_model(ds, fs, filepath)
         IN  IF loaded.raised # "None"
             THEN [raised |-> loaded.raised,
                   attempted |-> Append(attempted, filepath)]
             ELSE load_models_loop(ds, fs, sites, root, i + 1,
                                   DictSet(models, sites[i].name, loaded.value),
                                   Append(attempted, filepath))

\* a mutant of load_models_of: a datasite whose file cannot be loaded is left out
RECURSIVE load_models_lenient_loop(_, _, _, _, _, _, _)
load_models_lenient_loop(ds, fs, sites, root, i, models, attempted) ==
    IF i > Len(sites)
    THEN [raised |-> "None", value |-> models, attempted |-> attempted]
    ELSE LET filepath == Append(root, get_model_file(sites[i].name))
             loaded == load_model(ds, fs, filepath)
         IN  load_models_lenient_loop(ds, fs, sites, root, i + 1,
                 IF loaded.raised # "None" THEN models
                 ELSE DictSet(models, sites[i].name, loaded.value),
                 Append(attempted, filepath))

load_models_lenient(ds, fs, sites, root) ==
    load_models_lenient_loop(ds, fs, sites, root, 1, <<>>, <<>>)

load_models_of(ds, fs, sites, root) ==
    load_models_loop(ds, fs, sites, root, 1, <<>>, <<>>)

(***************************************************************************)
(* SpecFiles: dump_model, load_model and load_models on a file system in   *)
(* which each root exists, is absent below an existing parent, or is       *)
(* absent below an absent parent, and "models" may be a regular file.      *)
(***************************************************************************)
\* "A." and "a" share the file a_model.jbl; "b" has b_model.jbl
FileSiteNames == {<<"A", ".">>, <<"a">>, <<"b">>}

\* a serialised estimator, or no byte at all (which joblib.load rejects)
BufferContents == {Pickle(e) : e \in Estimators} \cup {<<>>}

\* a buffer is handed over as joblib.dump left it, the position at its end,
\* or rewound by seek(0), as serialize_and_upload does
Buffers == UNION {{[bytes |-> b, pos |-> p] : p \in {0, Len(b)}} : b \in BufferContents}

\* the registries of at most n datasites with distinct names
RECURSIVE DistinctSites(_)
DistinctSites(n) ==
    IF n = 0 THEN {<<>>}
    ELSE LET shorter == DistinctSites(n - 1)
         IN  shorter \cup
             {Append(s, [name |-> x, code |-> <<>>]) :
                 <<s, x>> \in {<<t, y>> \in shorter \X FileSiteNames :
                                  \A i \in DOMAIN t : t[i].name # y}}

LoadRegistries == DistinctSites(MaxSites)

InitFiles ==
    /\ datasites = <<>>
    /\ dirs \in {{}, {<<Models>>}, {<<Out>>}, {<<Out>>, <<Out, Models>>},
                 {<<Models>>, <<Out>>}, {<<Models>>, <<Out>>, <<Out, Models>>}}
    /\ files \in {<<>>} \cup
                 (IF <<Models>> \in dirs THEN {} ELSE {[p \in {<<Models>>} |-> <<>>]})
    /\ dumped = <<>>
    /\ args = <<>>
    /\ ret = NoCall

DumpModel ==
    \E name \in FileSiteNames, buffer \in Buffers, root \in Roots :
        LET r == dump_model_of(dirs, files, name, buffer, root)
            filepath == Append(root, get_model_file(name))
        IN  /\ dirs' = r.dirs
            /\ files' = r.files
            /\ dumped' = IF r.raised = "None"
                         THEN DictSet(dumped, filepath, buffer.bytes)
                         ELSE dumped
            /\ ret' = [op |-> "dump_model", datasite_name |-> name,
                       model_buffer |-> buffer, root |-> root,
                       replaced |-> IF filepath \in DOMAIN files
                                    THEN <<files[filepath]>> ELSE <<>>,
                       result |-> r]
            /\ UNCHANGED <<datasites, args>>

LoadModel ==
    \E name \in FileSiteNames, root \in Roots :
        LET filepath == Append(root, get_model_file(name))
        IN  /\ ret' = [op |-> "load_model", model_filepath |-> filepath,
                       result |-> load_model(dirs, files, filepath)]
            /\ UNCHANGED <<datasites, dirs, files, dumped, args>>

LoadModels ==
    \E sites \in LoadRegistries, root \in Roots :
        /\ ret' = [op |-> "load_models", datasites |-> sites, root |-> root,
                   result |-> load_models_of(dirs, files, sites, root)]
        /\ UNCHANGED <<datasites, dirs, files, dumped, args>>

NextFiles ==
    \/ DumpModel
    \/ LoadModel
    \/ LoadModels

SpecFiles == InitFiles /\ [][NextFiles]_vars

(***************************************************************************)
(* Claims about the model files, checked under SpecFiles.                  *)
(***************************************************************************)
ModelPath(root, name) == Append(root, get_model_file(name))
IsPickle(bytes) == \E e \in Estimators : bytes = Pickle(e)

\* C6: after dump_model(name, buffer, root) succeeds with a buffer that holds
\* a serialised estimator, load_model on root/get_model_file(name) returns
\* that estimator, whatever the path held before and wherever the read
\* position of the buffer was.
C6_DumpThenLoad ==
    (ret.op = "dump_model" /\ ret.result.raised = "None") =>
        \A e \in Estimators :
            ret.model_buffer.bytes = Pickle(e) =>
                load_model(dirs, files, ModelPath(ret.root, ret.datasite_name))
                    = [raised |-> "None", value |-> e]

C6_Witness ==
    /\ ret.op = "dump_model"
    /\ ret.result.raised = "None"
    /\ ret.model_buffer = [bytes |-> Pickle("rf2"), pos |-> Len(Pickle("rf2"))]
    /\ ret.replaced = <<Pickle("rf1")>>
    /\ files[ModelPath(ret.root, ret.datasite_name)] = Pickle("rf2")

\* C7 as stated: whether root exists, is absent below an existing parent or
\* is absent below an absent parent, dump_model raises nothing, root exists
\* afterwards and the file root/get_model_file(name) holds the buffer.
C7_RootEnsured ==
    (ret.op = "dump_model" /\ ret.root \notin DOMAIN files) =>
        /\ ret.result.raised = "None"
        /\ ret.root \in dirs
        /\ ModelPath(ret.root, ret.datasite_name) \in DOMAIN files
        /\ files[ModelPath(ret.root, ret.datasite_name)] = ret.model_buffer.bytes

\* C8: load_models returns a mapping whose keys are exactly the site names,
\* each mapped to the estimator stored at root/get_model_file(name); or, when
\* the file of some site is missing or corrupt, it raises at the first such
\* site, returns no mapping and attempts no load for a later site.
C8_AllOrFirstFailure ==
    ret.op = "load_models" =>
        LET sites == ret.datasites
            path(i) == ModelPath(ret.root, sites[i].name)
            bad == {i \in DOMAIN sites :
                       ~(path(i) \in DOMAIN files /\ IsPickle(files[path(i)]))}
        IN  IF bad = {}
            THEN /\ ret.result.raised = "None"
                 /\ DOMAIN ret.result.value = {sites[i].name : i \in DOMAIN sites}
                 /\ \A i \in DOMAIN sites :
                       files[path(i)] = Pickle(ret.result.value[sites[i].name])
                 /\ ret.result.attempted = [i \in DOMAIN sites |-> path(i)]
            ELSE LET k == CHOOSE i \in bad : \A j \in bad : i <= j
                 IN  /\ IF path(k) \in DOMAIN files
                        THEN ret.result.raised = "DeserializationError"
                        ELSE ret.result.raised \in
                                 {"FileNotFoundError", "NotADirectoryError"}
                     /\ "value" \notin DOMAIN ret.result
                     /\ ret.result.attempted = [i \in 1..k |-> path(i)]

C8_Witness ==
    /\ ret.op = "load_models"
    /\ Len(ret.datasites) = 3
    /\ ModelPath(ret.root, ret.datasites[1].name) \in DOMAIN files
    /\ ModelPath(ret.root, ret.datasites[3].name) \in DOMAIN files
    /\ IsPickle(files[ModelPath(ret.root, ret.datasites[3].name)])
    /\ ret.result.raised = "DeserializationError"
    /\ Len(ret.result.attempted) = 2

\* C10: names with the same get_model_file share one file under a root: it
\* holds the bytes of the most recent dump for either name, overwriting
\* raises nothing, and load_models over a registry with both names maps both
\* to the estimator of that last dump; a file dumped under a name with
\* another get_model_file still holds its own most recent dump.
C10_Collision ==
    /\ \A p \in DOMAIN dumped : p \in DOMAIN files /\ files[p] = dumped[p]
    /\ (ret.op = "dump_model" /\ ret.replaced # <<>>) =>
          /\ ret.result.raised = "None"
          /\ \A b \in FileSiteNames :
                get_model_file(b) = get_model_file(ret.datasite_name) =>
                    /\ ModelPath(ret.root, b) = ModelPath(ret.root, ret.datasite_name)
                    /\ files[ModelPath(ret.root, b)] = ret.model_buffer.bytes
    /\ (ret.op = "load_models" /\ ret.result.raised = "None") =>
          \A i, j \in DOMAIN ret.datasites :
              LET a == ret.datasites[i].name
                  b == ret.datasites[j].name
              IN  get_model_file(a) = get_model_file(b) =>
                      /\ ret.result.value[a] = ret.result.value[b]
                      /\ ModelPath(ret.root, a) \in DOMAIN dumped
                      /\ Pickle(ret.result.value[a]) = dumped[ModelPath(ret.root, a)]

C10_Witness ==
    /\ ret.op = "load_models"
    /\ ret.result.raised = "None"
    /\ Len(ret.datasites) = 3
    /\ \E i, j \in DOMAIN ret.datasites :
          /\ i # j
          /\ get_model_file(ret.datasites[i].name) = get_model_file(ret.datasites[j].name)
          /\ ret.result.value[ret.datasites[i].name] = "rf2"
          /\ ret.result.value[ret.datasites[j].name] = "rf2"
    /\ \E i \in DOMAIN ret.datasites : ret.result.value[ret.datasites[i].name] = "rf1"

(***************************************************************************)
(* The plot of the confusion matrices.  cms is the dict in its order, a    *)
(* sequence of names; the matrix of a name is identified with the name.    *)
(***************************************************************************)
GridSide == 2

\* product(range(2), repeat=2): (0, 0), (0, 1), (1, 0), (1, 1)
Product == [k \in 1..(GridSide * GridSide) |->
               <<(k - 1) \div GridSide, (k - 1) % GridSide>>]

\* zip(a, b): as long as the shorter of the two
Zip(a, b) == [i \in 1..(IF Len(a) <= Len(b) THEN Len(a) ELSE Len(b)) |-> <<a[i], b[i]>>]

\* plt.subplots(2, 2): four axes, nothing drawn on them
BlankAxes == [c \in {Product[k] : k \in DOMAIN Product} |-> [drawn |-> FALSE]]

\* the body of the loop: the display of one matrix on axes[coords]
DrawOn(axes, coords, name) ==
    [axes EXCEPT ![coords] =
        [drawn |-> TRUE, matrix |-> name, title |-> name, xlabel |-> "",
         ylabel |-> IF coords[2] # 0 THEN "" ELSE "True label"]]

RECURSIVE plot_loop(_, _, _)
plot_loop(pairs, i, axes) ==
    IF i > Len(pairs) THEN axes
    ELSE plot_loop(pairs, i + 1, DrawOn(axes, pairs[i][1], pairs[i][2]))

\* a mutant of plot_all_confusion_matrices_of: zip(..., strict=True)
plot_strict(cms, title) ==
    IF Len(cms) # Len(Product) THEN [raised |-> "ValueError"]
    ELSE [raised |-> "None",
          fig |-> [axes |-> plot_loop(Zip(Product, cms), 1, BlankAxes),
                   suptitle |-> IF title \in {"None", ""} THEN "None" ELSE title,
                   colorbar |-> cms[Len(Product)]]]

\* plot_all_confusion_matrices; `disp` is unbound when nothing was drawn
plot_all_confusion_matrices_of(cms, title) ==
    LET pairs == Zip(Product, cms)
    IN  IF Len(pairs) = 0 THEN [raised |-> "UnboundLocalError"]
        ELSE [raised |-> "None",
              fig |-> [axes |-> plot_loop(pairs, 1, BlankAxes),
                       suptitle |-> IF title \in {"None", ""} THEN "None" ELSE title,
                       colorbar |-> pairs[Len(pairs)][2]]]

(***************************************************************************)
(* SpecPlot: the plot of every dict of at most MaxCms named matrices.      *)
(***************************************************************************)
CmNames == 1..MaxCms

RECURSIVE DistinctNames(_)
DistinctNames(n) ==
    IF n = 0 THEN {<<>>}
    ELSE LET shorter == DistinctNames(n - 1)
         IN  shorter \cup
             {Append(s, x) :
                 <<s, x>> \in {<<t, y>> \in shorter \X CmNames :
                                  \A i \in DOMAIN t : t[i] # y}}

CmsInputs == DistinctNames(MaxCms)

Titles == {"None", "", "Confusion matrices"}

InitPlot ==
    /\ datasites = <<>>
    /\ dirs = {}
    /\ files = <<>>
    /\ dumped = <<>>
    /\ args \in [cms : CmsInputs, title : Titles]
    /\ ret = NoCall

PlotAllConfusionMatrices ==
    /\ ret' = [op |-> "plot_all_confusion_matrices", cms |-> args.cms,
               title |-> args.title,
               result |-> plot_all_confusion_matrices_of(args.cms, args.title)]
    /\ UNCHANGED <<datasites, dirs, files, dumped, args>>

NextPlot == PlotAllConfusionMatrices

SpecPlot == InitPlot /\ [][NextPlot]_vars

(***************************************************************************)
(* Claims about the plot, checked under SpecPlot.                          *)
(***************************************************************************)
DrawnInOrder(axes, cms, n) ==
    /\ axes[<<0, 0>>].drawn /\ axes[<<0, 0>>].matrix = cms[1]
    /\ n >= 2 => (axes[<<0, 1>>].drawn /\ axes[<<0, 1>>].matrix = cms[2])
    /\ n >= 3 => (axes[<<1, 0>>].drawn /\ axes[<<1, 0>>].matrix = cms[3])
    /\ n >= 4 => (axes[<<1, 1>>].drawn /\ axes[<<1, 1>>].matrix = cms[4])

FourDrawn ==
    (ret.op = "plot_all_confusion_matrices" /\ Len(ret.cms) = 4) =>
        /\ ret.result.raised = "None"
        /\ DOMAIN ret.result.fig.axes = {<<0, 0>>, <<0, 1>>, <<1, 0>>, <<1, 1>>}
        /\ DrawnInOrder(ret.result.fig.axes, ret.cms, 4)

\* C5 as stated: given exactly 4 named matrices the figure returned has all 4
\* subplots of the 2x2 grid drawn, one per matrix in input order; given 3
\* matrices the call fails and returns no figure.
C5_ThreeMatricesFail ==
    /\ FourDrawn
    /\ (ret.op = "plot_all_confusion_matrices" /\ Len(ret.cms) = 3) =>
          ret.result.raised # "None"

\* C5 amended: given exactly 4 named matrices the figure returned has all 4
\* subplots drawn, one per matrix in input order; given 3 matrices the call
\* raises nothing and returns a figure with the 3 matrices drawn in input
\* order on the first three subplots and the fourth subplot left empty.
C5_ThreeMatricesLeaveOneEmpty ==
    /\ FourDrawn
    /\ (ret.op = "plot_all_confusion_matrices" /\ Len(ret.cms) = 3) =>
          /\ ret.result.raised = "None"
          /\ DrawnInOrder(ret.result.fig.axes, ret.cms, 3)
          /\ ~ret.result.fig.axes[<<1, 1>>].drawn

C5_Witness ==
    /\ ret.op = "plot_all_confusion_matrices"
    /\ ret.cms = <<3, 1, 2>>
    /\ ret.result.raised = "None"
    /\ ret.result.fig.axes[<<1, 0>>].matrix = 2
    /\ ~ret.result.fig.axes[<<1, 1>>].drawn

====
